---- MODULE Spec2Model ----
(***************************************************************************)
(* Model of reflect.py: the stats reflector.  A ServiceHandler keeps one   *)
(* streaming request open to the stats server, reassembles protocol lines  *)
(* from the chunks it receives, and reduces them into the module-level     *)
(* dictionary `streams`, which MainHandler.get dumps as JSON.              *)
(*                                                                         *)
(* Text is modelled as a sequence of one-character strings, so that        *)
(* splitting, stripping, lower-casing and integer parsing are computed     *)
(* character by character as Python computes them.                         *)
(***************************************************************************)
EXTENDS Integers, Sequences, FiniteSets, TLC

VARIABLES
  streams,    \* the module-level dict: stream id -> dict of fields
  buffer,     \* ServiceHandler.buffer: the pending partial line
  backoff,    \* ServiceHandler.backoff
  connected,  \* ServiceHandler.connected
  fetches,    \* number of client.fetch requests in flight
  timeouts,   \* deadlines handed to IOLoop.add_timeout and not yet fired
  started,    \* whether __main__ has called service.connect()
  response,   \* <<body>> written by the MainHandler.get being served, or NoResponse
  last,       \* history: the last callback that ran and what it was given
  delays,     \* history: the deadlines scheduled since the last chunk
  running,    \* the handle_update call the IOLoop is in the middle of, or Idle
  feed        \* history of a chunked feed of one text (used by SpecFeed only)

vars == <<streams, buffer, backoff, connected, fetches, timeouts, started,
          response, last, delays, running, feed>>

-----------------------------------------------------------------------------
(* Bounds of the model *)

\* handle_disconnect is enabled while backoff < 2^MaxDoublings
MaxDoublings == 3
\* a chunk is accepted while the partial line it leaves is at most this long
MaxBuffer == 20
\* number of lines in a text of SpecFeed
MaxLines == 2

-----------------------------------------------------------------------------
(* Characters and text *)

NL == "\n"
SP == " "
\* the characters str.strip() removes (those the model's alphabet contains)
Whitespace == {" ", "\t", "\n", "\r", "\f"}
Digits == {"0", "1", "2", "3", "4", "5", "6", "7", "8", "9"}

DigitVal(c) ==
  CASE c = "0" -> 0 [] c = "1" -> 1 [] c = "2" -> 2 [] c = "3" -> 3
    [] c = "4" -> 4 [] c = "5" -> 5 [] c = "6" -> 6 [] c = "7" -> 7
    [] c = "8" -> 8 [] c = "9" -> 9

Uppers == <<"A", "B", "C", "D", "E", "F", "G", "H", "I", "J", "K", "L", "M", "N", "O", "P", "Q", "R", "S", "T", "U", "V", "W", "X", "Y", "Z">>
Lowers == <<"a", "b", "c", "d", "e", "f", "g", "h", "i", "j", "k", "l", "m", "n", "o", "p", "q", "r", "s", "t", "u", "v", "w", "x", "y", "z">>
UpperSet == {Uppers[i] : i \in 1..Len(Uppers)}

\* str.lower() on one character, then on a string
LowerChar(c) ==
  IF c \in UpperSet THEN Lowers[CHOOSE i \in 1..Len(Uppers) : Uppers[i] = c]
                    ELSE c
Lower(s) == [i \in 1..Len(s) |-> LowerChar(s[i])]

\* str.find(sep): the first index of s that holds sep, or 0
Find(s, sep) ==
  IF \E i \in 1..Len(s) : s[i] = sep
    THEN CHOOSE i \in 1..Len(s) : s[i] = sep /\ \A j \in 1..(i - 1) : s[j] # sep
    ELSE 0

\* str.split(sep, maxsplit) for a one-character sep; maxsplit < 0 is "no limit"
RECURSIVE SplitMax(_, _, _)
SplitMax(s, sep, maxsplit) ==
  LET i == IF maxsplit = 0 THEN 0 ELSE Find(s, sep) IN
  IF i = 0
    THEN <<s>>
    ELSE <<SubSeq(s, 1, i - 1)>>
           \o SplitMax(SubSeq(s, i + 1, Len(s)), sep,
                       IF maxsplit < 0 THEN maxsplit ELSE maxsplit - 1)

\* str.split(sep)
Split(s, sep) == SplitMax(s, sep, -1)

\* str.strip(): what lies between the first and the last character that is
\* not whitespace
Strip(s) ==
  LET n    == Len(s)
      keep == {i \in 1..n : s[i] \notin Whitespace}
  IN  IF keep = {}
        THEN <<>>
        ELSE SubSeq(s, CHOOSE i \in keep : \A j \in 1..(i - 1) : j \notin keep,
                       CHOOSE i \in keep : \A j \in (i + 1)..n : j \notin keep)

RECURSIVE DigitsVal(_)
DigitsVal(d) ==
  IF d = <<>> THEN 0
  ELSE 10 * DigitsVal(SubSeq(d, 1, Len(d) - 1)) + DigitVal(d[Len(d)])

\* an int() that reads the digits a value starts with and drops the rest
ParseInt_prefix(value) ==
  LET t    == Strip(value)
      stop == {i \in 1..Len(t) : t[i] \notin Digits}
      d    == IF stop = {} THEN t
              ELSE SubSeq(t, 1, (CHOOSE i \in stop : \A j \in stop : i <= j) - 1)
  IN  IF d # <<>> THEN [ok |-> TRUE, val |-> DigitsVal(d)]
                  ELSE [ok |-> FALSE, val |-> 0]

\* int(value) of Python 2 on a str: surrounding whitespace is dropped, then an
\* optional sign (whitespace may follow it), then one or more decimal digits.
\* ok = FALSE stands for the ValueError.
ParseInt(value) ==
  LET t      == Strip(value)
      signed == t # <<>> /\ t[1] \in {"+", "-"}
      d      == IF signed THEN Strip(Tail(t)) ELSE t
  IN  IF d # <<>> /\ \A i \in 1..Len(d) : d[i] \in Digits
        THEN [ok |-> TRUE,
              val |-> IF signed /\ t[1] = "-" THEN 0 - DigitsVal(d) ELSE DigitsVal(d)]
        ELSE [ok |-> FALSE, val |-> 0]

\* the handler names getattr() can find, as text
W_new == <<"n", "e", "w">>
W_delete == <<"d", "e", "l", "e", "t", "e">>
W_event == <<"e", "v", "e", "n", "t">>
W_listeners == <<"l", "i", "s", "t", "e", "n", "e", "r", "s">>
W_connected == <<"c", "o", "n", "n", "e", "c", "t", "e", "d">>
W_title == <<"t", "i", "t", "l", "e">>
W_listener_peak == <<"l", "i", "s", "t", "e", "n", "e", "r", "_", "p", "e", "a", "k">>
W_global == <<"g", "l", "o", "b", "a", "l">>

-----------------------------------------------------------------------------
(* The streams dictionary.  A dict is a function whose DOMAIN is the set   *)
(* of keys present; {} is the function with the empty domain.              *)

EmptyDict == <<>>
SetItem(d, k, v) == (k :> v) @@ d
Has(d, k) == k \in DOMAIN d

\* the outcome of running a handler on the dictionary st
Returned(st) == [streams |-> st, raised |-> FALSE]
Raised(st) == [streams |-> st, raised |-> TRUE]

\* streams[stream][field] = v
SetField(st, stream, field, v) == [st EXCEPT ![stream] = SetItem(@, field, v)]

(* EventHandler *)

\* key_new marking the stream connected, as action_new does
key_new_connects(st, stream, value) ==
  Returned(SetField(st, stream, "connected", 1))

key_new(st, stream, value) == Returned(st)

\* key_listeners without its test for the global stream
key_listeners_any(st, stream, value) ==
  LET n == ParseInt(value) IN
  IF n.ok THEN Returned(SetField(st, stream, "listeners", n.val))
          ELSE Raised(st)

\* key_listeners storing 0 for a value int() rejects
key_listeners_zero(st, stream, value) ==
  IF stream # W_global
    THEN LET n == ParseInt(value) IN
         Returned(SetField(st, stream, "listeners", IF n.ok THEN n.val ELSE 0))
    ELSE Returned(st)

key_listeners(st, stream, value) ==
  IF stream # W_global
    THEN LET n == ParseInt(value) IN
         IF n.ok THEN Returned(SetField(st, stream, "listeners", n.val))
                 ELSE Raised(st)
    ELSE Returned(st)

key_connected(st, stream, value) ==
  LET n == ParseInt(value) IN
  IF n.ok THEN Returned(SetField(st, stream, "connected", n.val))
          ELSE Raised(st)

key_title(st, stream, value) == Returned(SetField(st, stream, "title", value))

key_listener_peak(st, stream, value) ==
  LET n == ParseInt(value) IN
  IF n.ok THEN Returned(SetField(st, stream, "listener_peak", n.val))
          ELSE Raised(st)

\* EventHandler.dispatch: getattr(self, 'key_%s' % key.lower(), None)
EventHandler_dispatch(st, stream, key, value) ==
  LET k == Lower(key) IN
  CASE k = W_new           -> key_new(st, stream, value)
    [] k = W_listeners     -> key_listeners(st, stream, value)
    [] k = W_connected     -> key_connected(st, stream, value)
    [] k = W_title         -> key_title(st, stream, value)
    [] k = W_listener_peak -> key_listener_peak(st, stream, value)
    [] OTHER               -> Returned(st)

(* ActionHandler *)

action_new(st, stream, args) == Returned(SetField(st, stream, "connected", 1))

\* action_delete clearing listener_peak as well
action_delete_peak(st, stream, args) ==
  Returned(SetField(SetField(SetField(SetField(st, stream, "connected", 0),
                                      stream, "listeners", 0),
                             stream, "title", <<>>),
                    stream, "listener_peak", 0))

\* action_delete removing the record
action_delete_remove(st, stream, args) ==
  Returned([s \in DOMAIN st \ {stream} |-> st[s]])

action_delete(st, stream, args) ==
  Returned(SetField(SetField(SetField(st, stream, "connected", 0),
                             stream, "listeners", 0),
                    stream, "title", <<>>))

\* action_event(self, stream, key, value="", *args): calling it without a key
\* is a TypeError
action_event(st, stream, args) ==
  IF Len(args) < 1
    THEN Raised(st)
    ELSE EventHandler_dispatch(st, stream, args[1],
                               IF Len(args) >= 2 THEN args[2] ELSE <<>>)

\* the record dispatch creates for a stream it does not know
NewRecord == EmptyDict

\* dispatch creating the record before it looks the handler up
ActionHandler_dispatch_eager(st, values) ==
  LET action == Lower(values[1])
      stream == values[2]
      args   == SubSeq(values, 3, Len(values))
      known  == IF Has(st, stream) THEN st ELSE SetItem(st, stream, NewRecord)
  IN  CASE action = W_new    -> action_new(known, stream, args)
        [] action = W_delete -> action_delete(known, stream, args)
        [] action = W_event  -> action_event(known, stream, args)
        [] OTHER             -> Returned(known)

\* ActionHandler.dispatch(*values): action, stream, *args
ActionHandler_dispatch(st, values) ==
  LET action == Lower(values[1])
      stream == values[2]
      args   == SubSeq(values, 3, Len(values))
      known  == IF Has(st, stream) THEN st ELSE SetItem(st, stream, NewRecord)
  IN  CASE action = W_new    -> action_new(known, stream, args)
        [] action = W_delete -> action_delete(known, stream, args)
        [] action = W_event  -> action_event(known, stream, args)
        [] OTHER             -> Returned(st)

-----------------------------------------------------------------------------
(* ServiceHandler.handle_update, as a function of the buffer, the          *)
(* dictionary and the chunk                                                *)

\* the line split at every space
Tokens_unlimited(line) == Split(Strip(line), SP)

\* line.strip().split(' ', 3)
Tokens(line) == SplitMax(Strip(line), SP, 3)

\* the for loop over the complete lines: `dispatched` lists the token lists
\* handed to dispatch, the last of which raised when `raised` is true; the
\* exception leaves the loop and the function
RECURSIVE RunLines(_, _)
RunLines(st, lines) ==
  IF lines = <<>>
    THEN [streams |-> st, raised |-> FALSE, dispatched |-> <<>>]
    ELSE LET values == Tokens(Head(lines)) IN
         IF Len(values) < 2
           THEN RunLines(st, Tail(lines))
           ELSE LET r == ActionHandler_dispatch(st, values) IN
                IF r.raised
                  THEN [streams |-> r.streams, raised |-> TRUE,
                        dispatched |-> <<values>>]
                  ELSE LET rest == RunLines(r.streams, Tail(lines)) IN
                       [rest EXCEPT !.dispatched = <<values>> \o @]

(* The same, assignment by assignment: the dictionaries `streams` goes      *)
(* through while one call runs                                              *)

\* action_delete: its three assignments, in order
action_delete_steps(st, stream) ==
  LET d1 == SetField(st, stream, "connected", 0)
      d2 == SetField(d1, stream, "listeners", 0)
      d3 == SetField(d2, stream, "title", <<>>)
  IN  <<d1, d2, d3>>

\* ActionHandler.dispatch(*values): streams[stream] = {} for a stream it does
\* not know, then the handler's assignments (action_new and every key_
\* handler make at most one)
ActionHandler_dispatch_steps(st, values) ==
  LET action  == Lower(values[1])
      stream  == values[2]
      args    == SubSeq(values, 3, Len(values))
      known   == IF Has(st, stream) THEN st ELSE SetItem(st, stream, NewRecord)
      created == IF Has(st, stream) THEN <<>> ELSE <<known>>
      written(r) == IF r.streams = known THEN <<>> ELSE <<r.streams>>
  IN  CASE action = W_new    -> created \o written(action_new(known, stream, args))
        [] action = W_delete -> created \o action_delete_steps(known, stream)
        [] action = W_event  -> created \o written(action_event(known, stream, args))
        [] OTHER             -> <<>>

\* the for loop over the complete lines, left at the first line that raises
RECURSIVE RunLines_steps(_, _)
RunLines_steps(st, lines) ==
  IF lines = <<>>
    THEN <<>>
    ELSE LET values == Tokens(Head(lines)) IN
         IF Len(values) < 2
           THEN RunLines_steps(st, Tail(lines))
           ELSE LET r == ActionHandler_dispatch(st, values) IN
                ActionHandler_dispatch_steps(st, values)
                  \o (IF r.raised THEN <<>>
                                  ELSE RunLines_steps(r.streams, Tail(lines)))

-----------------------------------------------------------------------------
(* Protocol lines, stream ids and chunks the stats server sends in the model *)

L_NEW_a == <<"N", "E", "W", " ", "a">>
L_NEW_b == <<"N", "E", "W", " ", "b">>
L_new_a_x == <<"n", "e", "w", " ", "a", " ", "x">>
L_NEW_a_CR == <<"N", "E", "W", " ", "a", "\r">>
L_DELETE_a == <<"D", "E", "L", "E", "T", "E", " ", "a">>
L_DELETE_global == <<"D", "E", "L", "E", "T", "E", " ", "g", "l", "o", "b", "a", "l">>
L_EVENT_a_listeners_5 == <<"E", "V", "E", "N", "T", " ", "a", " ", "l", "i", "s", "t", "e", "n", "e", "r", "s", " ", "5">>
L_event_a_Listeners_5 == <<"e", "v", "e", "n", "t", " ", "a", " ", "L", "i", "s", "t", "e", "n", "e", "r", "s", " ", "5">>
L_EVENT_a_listeners_x == <<"E", "V", "E", "N", "T", " ", "a", " ", "l", "i", "s", "t", "e", "n", "e", "r", "s", " ", "x">>
L_EVENT_a_listeners_7x == <<"E", "V", "E", "N", "T", " ", "a", " ", "l", "i", "s", "t", "e", "n", "e", "r", "s", " ", "7", "x">>
L_EVENT_a_listeners == <<"E", "V", "E", "N", "T", " ", "a", " ", "l", "i", "s", "t", "e", "n", "e", "r", "s">>
L_EVENT_global_listeners_5 == <<"E", "V", "E", "N", "T", " ", "g", "l", "o", "b", "a", "l", " ", "l", "i", "s", "t", "e", "n", "e", "r", "s", " ", "5">>
L_EVENT_global_listeners_x == <<"E", "V", "E", "N", "T", " ", "g", "l", "o", "b", "a", "l", " ", "l", "i", "s", "t", "e", "n", "e", "r", "s", " ", "x">>
L_EVENT_a_connected_2 == <<"E", "V", "E", "N", "T", " ", "a", " ", "c", "o", "n", "n", "e", "c", "t", "e", "d", " ", "2">>
L_EVENT_a_listener_peak_neg == <<"E", "V", "E", "N", "T", " ", "a", " ", "l", "i", "s", "t", "e", "n", "e", "r", "_", "p", "e", "a", "k", " ", "-", "1">>
L_EVENT_a_listener_peak_x == <<"E", "V", "E", "N", "T", " ", "a", " ", "l", "i", "s", "t", "e", "n", "e", "r", "_", "p", "e", "a", "k", " ", "x">>
L_EVENT_a_title_t_u == <<"E", "V", "E", "N", "T", " ", "a", " ", "t", "i", "t", "l", "e", " ", "t", " ", "u">>
T_t_u == <<"t", " ", "u">>
W_EVENT_upper == <<"E", "V", "E", "N", "T">>
L_EVENT_a == <<"E", "V", "E", "N", "T", " ", "a">>
L_EVENT_a_bogus_1 == <<"E", "V", "E", "N", "T", " ", "a", " ", "b", "o", "g", "u", "s", " ", "1">>
L_EVENT_a_new_1 == <<"E", "V", "E", "N", "T", " ", "a", " ", "n", "e", "w", " ", "1">>
L_PING == <<"P", "I", "N", "G">>
L_FOO_c == <<"F", "O", "O", " ", "c">>
L_empty == <<>>
P_DELE == <<"D", "E", "L", "E">>
P_TE_a == <<"T", "E", " ", "a">>
S_a == <<"a">>
S_b == <<"b">>
S_c == <<"c">>

\* a text made of the given lines, each newline-terminated
RECURSIVE Text(_)
Text(ls) == IF ls = <<>> THEN <<>> ELSE Head(ls) \o <<NL>> \o Text(Tail(ls))

\* lines whose handler raises (ValueError from int(), TypeError from a
\* missing key)
RaisingLines ==
  { L_EVENT_a_listeners_x, L_EVENT_a_listeners, L_EVENT_a_listener_peak_x,
    L_EVENT_a }

\* lines that never reach a handler
IgnoredLines == { L_PING, L_FOO_c, L_empty }

\* complete protocol lines, without their newline
Lines ==
  { L_NEW_a, L_NEW_b, L_new_a_x, L_NEW_a_CR, L_DELETE_a, L_DELETE_global,
    L_EVENT_a_listeners_5, L_event_a_Listeners_5,
    L_EVENT_global_listeners_5, L_EVENT_global_listeners_x,
    L_EVENT_a_connected_2, L_EVENT_a_listener_peak_neg, L_EVENT_a_title_t_u,
    L_EVENT_a_bogus_1, L_EVENT_a_new_1 }
    \cup RaisingLines \cup IgnoredLines

\* chunks for the reduction of lines into the dictionary: every line alone,
\* and a raising, an ignored or a plain line followed by another line
StoreChunks ==
  {Text(<<l>>) : l \in Lines}
    \cup {Text(<<l, L_NEW_b>>) : l \in RaisingLines \cup {L_PING, L_DELETE_a}}

\* chunks for the connection: empty, one line, a line that raises followed
\* by another, a line that is ignored, and two halves of a line
Chunks ==
  { <<>>, Text(<<L_NEW_a>>), Text(<<L_EVENT_a_listeners_x, L_NEW_b>>),
    Text(<<L_PING>>), P_DELE, P_TE_a \o <<NL>> }

-----------------------------------------------------------------------------
(* State *)

\* response holds no body, or the one body being served
NoResponse == <<>>
NoFeed == [text |-> <<>>, wire |-> <<>>, log |-> <<>>]

\* running when the IOLoop is between callbacks; otherwise `before` is the
\* dictionary the running handle_update call found and `steps` lists the
\* dictionaries its remaining assignments lead to
Idle == [before |-> <<>>, steps |-> <<>>]

\* the history record of a callback that is not handle_update
Call(op, b) ==
  [op |-> op, content |-> <<>>, buffer |-> <<>>, backoff |-> b,
   raised |-> FALSE, dispatched |-> <<>>]

\* streams = {} at import; ServiceHandler.__init__
InitService ==
  /\ streams = EmptyDict
  /\ buffer = <<>>
  /\ backoff = 1
  /\ connected = FALSE
  /\ fetches = 0
  /\ timeouts = <<>>
  /\ started = FALSE
  /\ response = NoResponse
  /\ last = Call("init", 1)
  /\ delays = <<>>
  /\ running = Idle

Init == InitService /\ feed = NoFeed

RECURSIVE Pow2(_)
Pow2(n) == IF n = 0 THEN 1 ELSE 2 * Pow2(n - 1)

\* tuple t without its i-th element
Without(t, i) == SubSeq(t, 1, i - 1) \o SubSeq(t, i + 1, Len(t))

-----------------------------------------------------------------------------
(* Operations *)

\* ServiceHandler.connect: clears the flag and starts one fetch
connect ==
  /\ connected' = FALSE
  /\ fetches' = fetches + 1
  /\ last' = Call("connect", backoff)
  /\ response' = NoResponse
  /\ UNCHANGED <<streams, buffer, backoff, delays, running, feed>>

\* __main__: service.connect(), then the IOLoop runs
main ==
  /\ ~started
  /\ started' = TRUE
  /\ connect
  /\ UNCHANGED timeouts

\* the IOLoop runs a timeout that handle_disconnect added: self.connect
run_timeout ==
  /\ \E i \in 1..Len(timeouts) : timeouts' = Without(timeouts, i)
  /\ connect
  /\ UNCHANGED started

\* handle_disconnect adding the timeout twice
Scheduled_twice(b) == <<b, b>>
\* handle_disconnect giving up once backoff has reached 4
Scheduled_limited(b) == IF b >= 4 THEN <<>> ELSE <<b>>
\* the deadlines handle_disconnect adds to the IOLoop when backoff is b
Scheduled(b) == <<b>>

\* handle_disconnect growing backoff by one
Increased_linear(b) == b + 1
\* the backoff handle_disconnect leaves when it was b
Increased(b) == b * 2

\* the fetch ends (error, timeout or close): its callback, handle_disconnect
\* handle_disconnect leaving the connected flag as it finds it
handle_disconnect_keep ==
  /\ fetches > 0
  /\ backoff < Pow2(MaxDoublings)
  /\ fetches' = fetches - 1
  /\ timeouts' = timeouts \o Scheduled(backoff)
  /\ backoff' = Increased(backoff)
  /\ last' = Call("handle_disconnect", backoff)
  /\ delays' = delays \o Scheduled(backoff)
  /\ response' = NoResponse
  /\ UNCHANGED <<streams, buffer, connected, started, running, feed>>

\* the fetch's final callback: the connection has ended
handle_disconnect ==
  /\ fetches > 0
  /\ backoff < Pow2(MaxDoublings)
  /\ fetches' = fetches - 1
  /\ connected' = FALSE
  /\ timeouts' = timeouts \o Scheduled(backoff)
  /\ backoff' = Increased(backoff)
  /\ last' = Call("handle_disconnect", backoff)
  /\ delays' = delays \o Scheduled(backoff)
  /\ response' = NoResponse
  /\ UNCHANGED <<streams, buffer, started, running, feed>>

\* lines = (self.buffer + content).split("\n")
LinesOf(buf, content) == Split(buf \o content, NL)
\* lines[:-1], the complete lines
CompleteLines(buf, content) ==
  LET lines == LinesOf(buf, content) IN SubSeq(lines, 1, Len(lines) - 1)
\* lines[-1], the partial line kept for the next call
PartialLine(buf, content) ==
  LET lines == LinesOf(buf, content) IN lines[Len(lines)]

\* handle_update resetting backoff after the loop, which a raise skips
HandleUpdate_late(bk, buf, st, content) ==
  LET r == RunLines(st, CompleteLines(buf, content)) IN
  [backoff |-> IF r.raised THEN bk ELSE 1, connected |-> TRUE,
   buffer |-> PartialLine(buf, content), streams |-> r.streams,
   raised |-> r.raised, dispatched |-> r.dispatched]

\* what handle_update leaves when it is given content with the backoff bk,
\* the buffer buf and the dictionary st: backoff, connected, buffer, streams;
\* whether it raised and what it dispatched
HandleUpdate(bk, buf, st, content) ==
  LET r == RunLines(st, CompleteLines(buf, content)) IN
  [backoff |-> 1, connected |-> TRUE, buffer |-> PartialLine(buf, content),
   streams |-> r.streams, raised |-> r.raised, dispatched |-> r.dispatched]

\* one call of handle_update(content)
update(content) ==
  /\ \E r \in {HandleUpdate(backoff, buffer, streams, content)} :
     /\ Len(r.buffer) <= MaxBuffer
     /\ backoff' = r.backoff
     /\ connected' = r.connected
     /\ buffer' = r.buffer
     /\ streams' = r.streams
     /\ last' = [op |-> "handle_update", content |-> content,
                 buffer |-> buffer, backoff |-> backoff, raised |-> r.raised,
                 dispatched |-> r.dispatched]
  /\ delays' = <<>>
  /\ response' = NoResponse
  /\ UNCHANGED running

\* the fetch's streaming_callback, handle_update, is given a chunk
handle_update(content) ==
  /\ fetches > 0
  /\ update(content)
  /\ UNCHANGED <<fetches, timeouts, started, feed>>

\* json.dumps(streams): the JSON object has one member per stream id, whose
\* value is an object with one member per field present
Dumps(st) == [s \in DOMAIN st |-> [f \in DOMAIN st[s] |-> st[s][f]]]

\* MainHandler.get served from another thread, while a callback is running
get_threaded ==
  /\ started
  /\ response' = <<Dumps(streams)>>
  /\ UNCHANGED <<streams, buffer, backoff, connected, fetches, timeouts,
                 started, last, delays, running, feed>>

\* MainHandler.get: the IOLoop calls it between callbacks, never inside one
get ==
  /\ started
  /\ running = Idle
  /\ response' = <<Dumps(streams)>>
  /\ UNCHANGED <<streams, buffer, backoff, connected, fetches, timeouts,
                 started, last, delays, running, feed>>

\* the whole service: connection, ingestion and queries
Next ==
  \/ main
  \/ run_timeout
  \/ handle_disconnect
  \/ \E content \in Chunks : handle_update(content)
  \/ get

Spec == Init /\ [][Next]_vars

\* ingestion over one connection that stays open
NextStore ==
  \/ main
  \/ \E content \in StoreChunks : handle_update(content)

SpecStore == Init /\ [][NextStore]_vars

\* handle_update(content) is called: the statements before the for loop run
\* (backoff, connected, buffer), and the loop's assignments are still to come
handle_update_begin(content) ==
  /\ fetches > 0
  /\ running = Idle
  /\ \E r \in {HandleUpdate(backoff, buffer, streams, content)} :
     \E steps \in {RunLines_steps(streams, CompleteLines(buffer, content))} :
       /\ Len(r.buffer) <= MaxBuffer
       /\ backoff' = r.backoff
       /\ connected' = r.connected
       /\ buffer' = r.buffer
       /\ last' = [op |-> "handle_update", content |-> content,
                   buffer |-> buffer, backoff |-> backoff, raised |-> r.raised,
                   dispatched |-> r.dispatched]
       /\ running' = IF steps = <<>> THEN Idle
                                     ELSE [before |-> streams, steps |-> steps]
  /\ delays' = <<>>
  /\ response' = NoResponse
  /\ UNCHANGED <<streams, fetches, timeouts, started, feed>>

\* the running call makes its next assignment to streams; after the last one
\* it returns to the IOLoop
handle_update_step ==
  /\ running # Idle
  /\ streams' = Head(running.steps)
  /\ running' = IF Len(running.steps) = 1 THEN Idle
                 ELSE [running EXCEPT !.steps = Tail(@)]
  /\ response' = NoResponse
  /\ UNCHANGED <<buffer, backoff, connected, fetches, timeouts, started, last,
                 delays, feed>>

\* the chunks of the statement-level specification
LoopChunks ==
  { Text(<<L_NEW_a>>), Text(<<L_DELETE_a>>), Text(<<L_EVENT_a_listeners_5>>),
    Text(<<L_EVENT_a_listeners_7x>>), Text(<<L_EVENT_a_listener_peak_neg>>),
    Text(<<L_EVENT_a_title_t_u>>), Text(<<L_DELETE_a, L_NEW_b>>) }

\* ingestion statement by statement, and queries, on the one IOLoop thread
NextLoop ==
  \/ main
  \/ \E content \in LoopChunks : handle_update_begin(content)
  \/ handle_update_step
  \/ get

SpecLoop == Init /\ [][NextLoop]_vars

\* the service under a fair IOLoop: a timeout that was added is run
SpecLive == Spec /\ WF_vars(run_timeout)

-----------------------------------------------------------------------------
(* handle_update fed one text in chunks, next to the same text fed whole *)

\* lines of the texts that are fed
FeedLines ==
  { L_NEW_a, L_EVENT_a_listeners_5, L_EVENT_a_listeners_x, L_DELETE_a }

\* the texts of n lines
RECURSIVE LineSeqs(_)
LineSeqs(n) ==
  IF n = 0 THEN {<<>>}
  ELSE {<<l>> \o ls : l \in FeedLines, ls \in LineSeqs(n - 1)}

Texts == {Text(ls) : ls \in UNION {LineSeqs(n) : n \in 1..MaxLines}}

InitFeed ==
  /\ InitService
  /\ \E t \in Texts : feed = [text |-> t, wire |-> t, log |-> <<>>]

\* the next piece of the text, of any length, is given to handle_update
feed_chunk ==
  \E n \in 1..Len(feed.wire) :
    /\ update(SubSeq(feed.wire, 1, n))
    /\ feed' = [feed EXCEPT !.wire = SubSeq(@, n + 1, Len(@)),
                            !.log = @ \o last'.dispatched]
    /\ UNCHANGED <<fetches, timeouts, started>>

NextFeed == feed_chunk

SpecFeed == InitFeed /\ [][NextFeed]_vars

-----------------------------------------------------------------------------
(* Properties *)

TypeOK ==
  /\ backoff \in 1..Pow2(MaxDoublings)
  /\ connected \in BOOLEAN
  /\ fetches \in Nat
  /\ Len(buffer) <= MaxBuffer

Fields == {"connected", "listeners", "listener_peak", "title"}
StreamIds == {S_a, S_b, S_c, W_global}

\* a field of a stream's record as a tuple: empty when the stream or the
\* field is absent
FieldOf(st, s, f) ==
  IF Has(st, s) /\ Has(st[s], f) THEN <<st[s][f]>> ELSE <<>>

\* the token lists of the complete lines that have at least two tokens: what
\* the loop hands to dispatch when it is not left early
Dispatchable(buf, content) ==
  LET cl == CompleteLines(buf, content)
      tk == [i \in 1..Len(cl) |-> Tokens(cl[i])]
  IN  SelectSeq(tk, LAMBDA v : Len(v) >= 2)

\* the value token of an EVENT line's token list ("" when it has none)
ValueOf(values) == IF Len(values) >= 4 THEN values[4] ELSE <<>>

\* values is an EVENT on an integer-valued key whose value int() rejects
UnparsedIntEvent(values) ==
  /\ Len(values) >= 3
  /\ Lower(values[1]) = W_event
  /\ Lower(values[3]) \in {W_listeners, W_connected, W_listener_peak}
  /\ ~ParseInt(ValueOf(values)).ok

\* the step is a handle_update call that dispatched exactly one line
DispatchedOne == last'.op = "handle_update" /\ Len(last'.dispatched) = 1

\* what handle_update leaves when a new service is given the whole text at once
Whole(text) == HandleUpdate(1, <<>>, EmptyDict, text)

(* C1: feeding a text of complete lines in chunks dispatches the same       *)
(* token lists and leaves the same dictionary and buffer as feeding it as   *)
(* one chunk.                                                               *)
C1_ChunkedSameAsWhole ==
  (feed.text # <<>> /\ feed.wire = <<>>) =>
    /\ feed.log = Whole(feed.text).dispatched
    /\ streams = Whole(feed.text).streams
    /\ buffer = Whole(feed.text).buffer

\* the same, for the texts none of whose lines raises
ChunkedSameAsWholeUnlessRaised ==
  (feed.text # <<>> /\ feed.wire = <<>> /\ ~Whole(feed.text).raised) =>
    /\ feed.log = Whole(feed.text).dispatched
    /\ streams = Whole(feed.text).streams
    /\ buffer = Whole(feed.text).buffer

(* C2: the deadlines scheduled by consecutive disconnects with no chunk in  *)
(* between are 1, 2, 4, ...: each disconnect schedules the backoff it finds *)
(* and then doubles it.                                                     *)
C2_BackoffDoubles ==
  /\ \A i \in 1..Len(delays) : delays[i] = Pow2(i - 1)
  /\ last.op = "handle_disconnect" =>
       /\ timeouts = <<last.backoff>>
       /\ backoff = 2 * last.backoff

C2_Witness == last.op = "handle_disconnect" /\ delays = <<1, 2, 4>>

(* C3: every chunk, whatever it holds, leaves backoff = 1, and the          *)
(* disconnect that follows a chunk schedules the deadline 1.                *)
C3_ChunkResetsBackoff ==
  [][/\ last'.op = "handle_update" => backoff' = 1
     /\ (last.op = "handle_update" /\ last'.op = "handle_disconnect") =>
          timeouts' = timeouts \o <<1>>]_vars

\* a chunk whose line raised arrived when backoff had grown to 4
C3_Witness ==
  last.op = "handle_update" /\ last.raised /\ last.backoff = 4 /\ backoff = 1

(* C4: every record of the dictionary, and of every response to a query,    *)
(* has all four fields.                                                     *)
C4_RecordsComplete ==
  /\ \A s \in DOMAIN streams : DOMAIN streams[s] = Fields
  /\ response # NoResponse =>
       \A s \in DOMAIN response[1] : DOMAIN response[1][s] = Fields

(* C5: a chunk holding an EVENT on an integer-valued key whose value does   *)
(* not parse raises nothing, and every complete line of the chunk with at   *)
(* least two tokens is dispatched.                                          *)
C5_UnparsedIntNotFatal ==
  LET all == Dispatchable(last.buffer, last.content) IN
  (/\ last.op = "handle_update"
   /\ \E i \in 1..Len(all) : UnparsedIntEvent(all[i])) =>
    /\ ~last.raised
    /\ last.dispatched = all

(* C6: a call that dispatches one DELETE line for a stream leaves that      *)
(* stream with connected = 0, listeners = 0, title = "" and its             *)
(* listener_peak as it was (absent when it was absent), and leaves every    *)
(* other record as it was.                                                  *)
C6_DeleteFrame ==
  [][\A s \in StreamIds :
       (/\ DispatchedOne
        /\ Lower(last'.dispatched[1][1]) = W_delete
        /\ last'.dispatched[1][2] = s) =>
         /\ FieldOf(streams', s, "connected") = <<0>>
         /\ FieldOf(streams', s, "listeners") = <<0>>
         /\ FieldOf(streams', s, "title") = << <<>> >>
         /\ FieldOf(streams', s, "listener_peak")
              = FieldOf(streams, s, "listener_peak")
         /\ DOMAIN streams' = DOMAIN streams \cup {s}
         /\ \A o \in DOMAIN streams \ {s} : streams'[o] = streams[o]]_vars

\* DELETE a was applied to a record with a peak, beside another record
C6_Witness ==
  /\ last.op = "handle_update"
  /\ last.dispatched = <<SplitMax(L_DELETE_a, SP, 3)>>
  /\ FieldOf(streams, S_a, "listener_peak") = <<-1>>
  /\ FieldOf(streams, S_a, "connected") = <<0>>
  /\ FieldOf(streams, S_b, "connected") = <<1>>

(* C7: a call that dispatches one EVENT line with key listeners leaves the  *)
(* listeners field of the stream "global" as it was, whatever the value,    *)
(* and sets the listeners field of any other stream to the integer the      *)
(* value parses to.                                                         *)
C7_GlobalListenersDiscarded ==
  [][\A s \in StreamIds :
       (/\ DispatchedOne
        /\ Len(last'.dispatched[1]) >= 3
        /\ Lower(last'.dispatched[1][1]) = W_event
        /\ Lower(last'.dispatched[1][3]) = W_listeners
        /\ last'.dispatched[1][2] = s) =>
         LET n == ParseInt(ValueOf(last'.dispatched[1])) IN
         /\ s = W_global =>
              /\ FieldOf(streams', s, "listeners")
                   = FieldOf(streams, s, "listeners")
              /\ ~last'.raised
         /\ (s # W_global /\ n.ok) =>
              FieldOf(streams', s, "listeners") = <<n.val>>
         /\ last'.content = Text(<<L_EVENT_a_listeners_5>>) =>
              FieldOf(streams', S_a, "listeners") = <<5>>]_vars

\* EVENT global listeners 5 was applied to a global record whose listeners is 0
C7_Witness ==
  /\ last.op = "handle_update"
  /\ last.content = Text(<<L_EVENT_global_listeners_5>>)
  /\ Len(last.dispatched) = 1
  /\ FieldOf(streams, W_global, "listeners") = <<0>>

\* the action handlers getattr() can find
Actions == {W_new, W_delete, W_event}

(* C8: a call all of whose complete lines have one token, or a first token  *)
(* that is no action, leaves the dictionary as it was and raises nothing.   *)
C8_IgnoredLinesFrame ==
  [][\A cl \in {CompleteLines(last'.buffer, last'.content)} :
       (/\ last'.op = "handle_update"
        /\ \A i \in 1..Len(cl) :
             \/ Len(Tokens(cl[i])) < 2
             \/ Lower(Tokens(cl[i])[1]) \notin Actions) =>
         /\ streams' = streams
         /\ ~last'.raised]_vars

\* FOO c was received when the dictionary held records, and c has none
C8_Witness ==
  /\ last.op = "handle_update"
  /\ last.content = Text(<<L_FOO_c>>)
  /\ S_a \in DOMAIN streams
  /\ S_c \notin DOMAIN streams

(* C9: at most one fetch is in flight, at most one timeout is pending, and  *)
(* no timeout is pending while a fetch is in flight.                        *)
C9_OneConnection ==
  /\ fetches <= 1
  /\ Len(timeouts) <= 1
  /\ ~(fetches = 1 /\ timeouts # <<>>)

\* the third termination in a row left one timeout pending and no fetch
C9_Witness ==
  last.op = "handle_disconnect" /\ fetches = 0 /\ timeouts = <<4>>

(* C10: under a fair IOLoop every termination of the connection is          *)
(* eventually followed by a call of connect().                              *)
C10_AlwaysReconnects ==
  (last.op = "handle_disconnect") ~> (last.op = "connect")

\* connect() ran after the third termination in a row
C10_Witness ==
  last.op = "connect" /\ delays = <<1, 2, 4>> /\ fetches = 1

(* C11: right after every call of connect() the buffer is empty, so what a  *)
(* connection left unterminated is never joined with the first chunk of the *)
(* next connection.                                                         *)
C11_BufferEmptyAtConnect == last.op = "connect" => buffer = <<>>

(* C12: in every record the connected field, when written, is 0 or 1, and   *)
(* the listeners and listener_peak fields, when written, are not negative.  *)
C12_FieldRanges ==
  \A s \in DOMAIN streams :
    /\ Has(streams[s], "connected") => streams[s]["connected"] \in {0, 1}
    /\ Has(streams[s], "listeners") => streams[s]["listeners"] >= 0
    /\ Has(streams[s], "listener_peak") => streams[s]["listener_peak"] >= 0

(* C13: no step removes a stream id from the dictionary: a stream that has  *)
(* a record has one in every later state.                                   *)
C13_StreamsOnlyGrow == [][DOMAIN streams \subseteq DOMAIN streams']_vars

\* DELETE a, joined from the leftover of an ended connection, was applied and
\* a has a record
C13_Witness ==
  /\ last.op = "handle_update"
  /\ last.dispatched = <<SplitMax(L_DELETE_a, SP, 3)>>
  /\ last.buffer = P_DELE
  /\ FieldOf(streams, S_a, "connected") = <<0>>

\* the assignments of a call, made one by one, end in the dictionary the
\* call as a whole leaves
StepsReachWhole ==
  [][(last'.op = "handle_update" /\ running = Idle /\ response' = NoResponse) =>
       (IF running' = Idle THEN streams
        ELSE running'.steps[Len(running'.steps)])
         = HandleUpdate(backoff, buffer, streams, last'.content).streams]_vars

\* the values the lines of LoopChunks carry, and the values NEW and DELETE
\* assign, per field
WrittenWhole(f) ==
  CASE f = "connected"     -> {0, 1}
    [] f = "listeners"     -> {0, 5}
    [] f = "listener_peak" -> {-1}
    [] f = "title"         -> {<<>>, T_t_u}

(* C14: every field value in the body of a response is one that NEW, DELETE *)
(* or an EVENT whose value parsed assigned in whole: connected is 0 or 1,   *)
(* listeners is 0 or the 5 that was sent, listener_peak is the -1 that was  *)
(* sent, title is "" or the "t u" that was sent; the 7 of the rejected      *)
(* value "7x" never shows.                                                  *)
C14_NoTornField ==
  response # NoResponse =>
    \A s \in DOMAIN response[1] :
      /\ DOMAIN response[1][s] \subseteq Fields
      /\ \A f \in DOMAIN response[1][s] : response[1][s][f] \in WrittenWhole(f)

\* a query was served right after a call that dispatched DELETE a and then
\* NEW b, on a record whose peak an EVENT had set
C14_Witness ==
  /\ response # NoResponse
  /\ last.op = "handle_update"
  /\ last.content = Text(<<L_DELETE_a, L_NEW_b>>)
  /\ FieldOf(response[1], S_a, "listeners") = <<0>>
  /\ FieldOf(response[1], S_a, "listener_peak") = <<-1>>
  /\ FieldOf(response[1], S_b, "connected") = <<1>>

(* C15: no line is dispatched as more than four tokens, and a call that     *)
(* dispatches one EVENT line with key title sets the stream's title to the  *)
(* whole fourth token: "EVENT a title t u" sets the title of a to "t u".    *)
C15_TitleVerbatim ==
  [][/\ last'.op = "handle_update" =>
          \A i \in 1..Len(last'.dispatched) : Len(last'.dispatched[i]) <= 4
     /\ \A s \in StreamIds :
          (/\ DispatchedOne
           /\ Len(last'.dispatched[1]) >= 3
           /\ Lower(last'.dispatched[1][1]) = W_event
           /\ Lower(last'.dispatched[1][3]) = W_title
           /\ last'.dispatched[1][2] = s) =>
            /\ FieldOf(streams', s, "title") = <<ValueOf(last'.dispatched[1])>>
            /\ ~last'.raised
     /\ last'.content = Text(<<L_EVENT_a_title_t_u>>) =>
          /\ last'.dispatched = << <<W_EVENT_upper, S_a, W_title, T_t_u>> >>
          /\ FieldOf(streams', S_a, "title") = <<T_t_u>>]_vars

\* EVENT a title t u was applied to a record whose title DELETE had cleared
C15_Witness ==
  /\ last.op = "handle_update"
  /\ last.content = Text(<<L_EVENT_a_title_t_u>>)
  /\ FieldOf(streams, S_a, "title") = <<T_t_u>>
  /\ FieldOf(streams, S_a, "listeners") = <<0>>

\* values is an EVENT line of exactly two tokens: it has no key
EventWithoutKey(values) == Len(values) = 2 /\ Lower(values[1]) = W_event

(* C16: a chunk holding a line EVENT <stream> of exactly two tokens raises  *)
(* nothing, every complete line of the chunk with at least two tokens is    *)
(* dispatched, and a call that dispatches that line alone writes no field.  *)
C16_EventWithoutKeyNotFatal ==
  [][\A all \in {Dispatchable(last'.buffer, last'.content)} :
       (/\ last'.op = "handle_update"
        /\ \E i \in 1..Len(all) : EventWithoutKey(all[i])) =>
         /\ ~last'.raised
         /\ last'.dispatched = all
         /\ Len(all) = 1 =>
              \A s \in StreamIds : \A f \in Fields :
                FieldOf(streams', s, f) = FieldOf(streams, s, f)]_vars

(* C17: a call whose one dispatched line is an EVENT on listeners,          *)
(* connected or listener_peak with a value int() rejects leaves every       *)
(* field of every record as it was: the target field keeps its value, or    *)
(* stays absent.                                                            *)
C17_UnparsedIntWritesNothing ==
  [][(DispatchedOne /\ UnparsedIntEvent(last'.dispatched[1])) =>
       \A s \in StreamIds : \A f \in Fields :
         FieldOf(streams', s, f) = FieldOf(streams, s, f)]_vars

\* EVENT a listeners x was received when listeners of a was 5, beside b
C17_Witness ==
  /\ last.op = "handle_update"
  /\ last.content = Text(<<L_EVENT_a_listeners_x>>)
  /\ last.raised
  /\ FieldOf(streams, S_a, "listeners") = <<5>>
  /\ FieldOf(streams, S_b, "connected") = <<1>>

\* the keys whose handler assigns a field
WritingKeys == {W_listeners, W_connected, W_title, W_listener_peak}

(* C18: a call whose one dispatched line is an EVENT with the key new, or   *)
(* with a key that has no handler, raises nothing and leaves every record   *)
(* that existed as it was; the only change is the empty record created for  *)
(* a stream that had none.                                                  *)
C18_UnknownKeyFrame ==
  [][\A s \in StreamIds :
       (/\ DispatchedOne
        /\ Len(last'.dispatched[1]) >= 3
        /\ Lower(last'.dispatched[1][1]) = W_event
        /\ Lower(last'.dispatched[1][3]) \notin WritingKeys
        /\ last'.dispatched[1][2] = s) =>
         /\ ~last'.raised
         /\ \A o \in DOMAIN streams : streams'[o] = streams[o]
         /\ DOMAIN streams' = DOMAIN streams \cup {s}
         /\ s \notin DOMAIN streams => streams'[s] = EmptyDict]_vars

\* EVENT a new 1 was received when a was disconnected with a title
C18_Witness ==
  /\ last.op = "handle_update"
  /\ last.content = Text(<<L_EVENT_a_new_1>>)
  /\ Len(last.dispatched) = 1
  /\ FieldOf(streams, S_a, "connected") = <<0>>
  /\ FieldOf(streams, S_a, "title") = <<T_t_u>>

\* EVENT a bogus 1 was received first: a has an empty record
C18_WitnessCreated ==
  /\ last.op = "handle_update"
  /\ last.content = Text(<<L_EVENT_a_bogus_1>>)
  /\ streams = SetItem(EmptyDict, S_a, EmptyDict)

\* the fields action_delete assigns
ClearedFields == {"connected", "listeners", "title"}

(* C19: the body of a response served after handle_update was called with a *)
(* chunk whose DELETE line is the only line for its stream shows that       *)
(* stream with connected = 0, listeners = 0 and title = "" all three, or,   *)
(* were the call still running, with all three as the call found them:      *)
(* never with some of them cleared and the others not.                      *)
C19_DeleteAtomic ==
  \A s \in StreamIds :
    (/\ response # NoResponse
     /\ last.op = "handle_update"
     /\ \E i \in 1..Len(last.dispatched) :
          /\ Lower(last.dispatched[i][1]) = W_delete
          /\ last.dispatched[i][2] = s
          /\ \A j \in 1..Len(last.dispatched) :
               j # i => last.dispatched[j][2] # s) =>
      \/ /\ FieldOf(response[1], s, "connected") = <<0>>
         /\ FieldOf(response[1], s, "listeners") = <<0>>
         /\ FieldOf(response[1], s, "title") = << <<>> >>
      \/ /\ running # Idle
         /\ \A f \in ClearedFields :
              FieldOf(response[1], s, f) = FieldOf(running.before, s, f)

\* a query was served after DELETE a had been applied to a record that events
\* had filled: all three fields are cleared and the peak is kept
C19_Witness ==
  /\ response # NoResponse
  /\ last.op = "handle_update"
  /\ last.content = Text(<<L_DELETE_a>>)
  /\ running = Idle
  /\ response[1][S_a] = [connected |-> 0, listeners |-> 0, title |-> <<>>,
                         listener_peak |-> -1]

(* C20: backoff is always 2^k for some k >= 0, and backoff is 1 whenever    *)
(* the connected flag is true.                                              *)
C20_BackoffPowerOfTwo ==
  /\ \E k \in 0..MaxDoublings : backoff = Pow2(k)
  /\ connected => backoff = 1

\* a chunk arrived after three terminations in a row: the flag is true and
\* backoff is back from 8 to 1
C20_Witness ==
  /\ connected
  /\ backoff = 1
  /\ last.op = "handle_update"
  /\ last.backoff = 8

====
